---- MODULE Spec2Model ----
(***************************************************************************)
(* Graph builders of graphnet (src/graphnet/models/graph_builders.py):     *)
(* KNNGraphBuilder, RadialGraphBuilder and EuclideanGraphBuilder, each a   *)
(* constructor storing its parameters and a forward(data) that writes      *)
(* data.edge_index (and, for the Euclidean builder, data.edge_weight).     *)
(*                                                                         *)
(* Conventions of the model:                                               *)
(*  - a point index is its position in data.x counted from 1 (Python       *)
(*    counts from 0); column indices keep Python's base 0;                 *)
(*  - data.edge_index, a 2 x E tensor, is the sequence of its E columns,   *)
(*    each <<edge_index[0][e], edge_index[1][e]>>;                         *)
(*  - reals are fixed-point integers with Scale units per 1.0;             *)
(*  - knn_graph and radius_graph are the torch_cluster routines the        *)
(*    builders call: examples are the consecutive index ranges given by    *)
(*    the per-id counts of data.batch, candidates are scanned in index     *)
(*    order, and the self match is removed after the search.               *)
(***************************************************************************)
EXTENDS Integers, Sequences, FiniteSets, TLC

VARIABLES
    data,   \* the Data object the builders are called on
    last,   \* the last forward call: its builder, and how it went
    calls   \* the number of forward calls made on data

vars == <<data, last, calls>>

\* An optional value (Python's None or a value) is the empty set or the
\* singleton of the value.
None == {}
Some(v) == {v}
The(o) == CHOOSE v \in o : TRUE

\* The float nan, apart from every fixed-point value the model computes.
NaN == 0 - 1

(* ------------------------------ bounds -------------------------------- *)

\* Largest number of points of an enumerated input.
MaxPoints == 3

\* Largest number of forward calls made on one Data object.
MaxCalls == 2

\* Number of points of the largest dense input (one batch, all points close).
MaxDense == 34

\* Feature rows a point may have: the scenario triangle of the specification.
Grid == { <<0, 0, 0>>, <<1, 0, 0>>, <<0, 1, 0>> }

\* Batch ids of the inputs (not contiguous).
BatchIds == {0, 2}

\* Fixed-point units per 1.0.
Scale == 10 ^ 4

\* Constructor arguments tried by the actions.
Ks == {0, 1, 2}
\* radius, in halves: 0, 1.0 and 1.5
RadiusHalves == {0, 2, 3}
Sigmas == {0, 1, 2}
Thresholds == {0, (6 * Scale) \div 10}
ColumnArgs == {None, Some(<<0>>), Some(<<0, 3>>)}

(* ------------------------------ helpers ------------------------------- *)

Min(a, b) == IF a <= b THEN a ELSE b

Range(s) == {s[i] : i \in DOMAIN s}

RECURSIVE SumTo(_, _)
\* f[1] + ... + f[n]
SumTo(f, n) == IF n = 0 THEN 0 ELSE f[n] + SumTo(f, n - 1)

RECURSIVE Flatten(_, _)
\* rows[1] \o ... \o rows[n]
Flatten(rows, n) == IF n = 0 THEN <<>> ELSE Flatten(rows, n - 1) \o rows[n]

\* data.x[:, columns]; columns are 0-based.
SelectColumns(x, columns) ==
    [i \in DOMAIN x |-> [c \in DOMAIN columns |-> x[i][columns[c] + 1]]]

\* Indexing data.x[:, columns] raises IndexError for a column outside the row.
ColumnsInRange(x, columns) ==
    \A c \in DOMAIN columns : columns[c] >= 0 /\ columns[c] < Len(x[1])

\* Squared Euclidean distance of two rows.
SqDist(p, q) == SumTo([c \in DOMAIN p |-> (p[c] - q[c]) * (p[c] - q[c])], Len(p))

(* ------------------- torch_cluster: examples of a batch ---------------- *)

\* deg[b]: number of points with batch id b (scatter_add of ones).
Degree(batch, b) == Cardinality({i \in DOMAIN batch : batch[i] = b})

\* ptr[b]: cumulative sum of deg below b.
Ptr(batch, b) == SumTo([c \in 1..b |-> Degree(batch, c - 1)], b)

MaxOf(S) == CHOOSE m \in S : \A v \in S : v <= m

\* The mutant: the batch vector is not passed on, all points are one example.
ExampleRangeNoBatch(batch, n) == DOMAIN batch

\* The examples are the consecutive index ranges ptr[e]+1 .. ptr[e+1], e from
\* 0 to max(batch); this is the range that holds index n, the points the
\* search for n runs over.
ExampleRange(batch, n) ==
    LET e == CHOOSE b \in 0..MaxOf(Range(batch)) :
                 Ptr(batch, b) < n /\ n <= Ptr(batch, b + 1)
    IN  (Ptr(batch, e) + 1)..Ptr(batch, e + 1)

\* Candidates in the order the search keeps them: by squared distance to the
\* query n, then by index (a candidate replaces a kept one only when strictly
\* closer, and candidates are scanned in index order).
Closer(pos, n, a, b) ==
    \/ SqDist(pos[n], pos[a]) < SqDist(pos[n], pos[b])
    \/ SqDist(pos[n], pos[a]) = SqDist(pos[n], pos[b]) /\ a < b

\* The candidates of S as a sequence ordered by Closer.
Nearest(pos, n, S) ==
    [r \in 1..Cardinality(S) |->
        CHOOSE a \in S : Cardinality({b \in S : Closer(pos, n, b, a)}) = r - 1]

\* The candidates of S as a sequence in index order.
Ascending(S) ==
    [r \in 1..Cardinality(S) |->
        CHOOSE a \in S : Cardinality({b \in S : b < a}) = r - 1]

(* --------------------------- torch_cluster: knn ------------------------ *)

\* knn(x, x, k, batch, batch): for the query n, its k nearest candidates of
\* its example (all of them when the example has fewer than k), self included.
knn(pos, k, batch, n) ==
    LET S == ExampleRange(batch, n)
    IN  SubSeq(Nearest(pos, n, S), 1, Min(k, Cardinality(S)))

\* knn_graph(x, k, batch), loop=False, flow='source_to_target': search k + 1
\* per point, put the neighbour in row 0 and the query in row 1, then drop the
\* columns with row 0 = row 1.
knn_graph(pos, k, batch) ==
    Flatten([n \in DOMAIN pos |->
                LET col == knn(pos, k + 1, batch, n)
                IN  SelectSeq([r \in DOMAIN col |-> <<col[r], n>>],
                              LAMBDA e : e[1] # e[2])],
            Len(pos))

(* ------------------------- torch_cluster: radius ----------------------- *)

\* radius_graph's default max_num_neighbors.
MaxNumNeighbors == 32

\* A candidate is within the radius when its squared distance is below r * r
\* (r is given in halves, so r * r = radius_halves^2 / 4).
WithinRadius(p, q, radius_halves) ==
    4 * SqDist(p, q) < radius_halves * radius_halves

\* radius(x, x, r, batch, batch, max): for the query n, the candidates of its
\* example within the radius, in index order, at most max of them, self
\* included.
radius(pos, radius_halves, batch, max, n) ==
    LET S == {c \in ExampleRange(batch, n) :
                  WithinRadius(pos[n], pos[c], radius_halves)}
    IN  SubSeq(Ascending(S), 1, Min(max, Cardinality(S)))

\* radius_graph(x, r, batch), loop=False, max_num_neighbors=32,
\* flow='source_to_target': search max_num_neighbors + 1 per point, put the
\* neighbour in row 0 and the query in row 1, then drop the columns with
\* row 0 = row 1.
radius_graph(pos, radius_halves, batch) ==
    Flatten([n \in DOMAIN pos |->
                LET col == radius(pos, radius_halves, batch,
                                  MaxNumNeighbors + 1, n)
                IN  SelectSeq([r \in DOMAIN col |-> <<col[r], n>>],
                              LAMBDA e : e[1] # e[2])],
            Len(pos))

(* --------------------------- fixed-point reals ------------------------- *)

RECURSIVE SqrtBetween(_, _, _)
\* The largest r in lo..hi with r * r <= v.
SqrtBetween(v, lo, hi) ==
    IF lo >= hi THEN lo
    ELSE LET mid == (lo + hi + 1) \div 2
         IN  IF mid * mid <= v THEN SqrtBetween(v, mid, hi)
             ELSE SqrtBetween(v, lo, mid - 1)

\* torch.sqrt of the integer v, in fixed point.
Sqrt(v) == SqrtBetween(v * Scale * Scale, 0, (v + 1) * Scale)

RECURSIVE ExpSeries(_, _, _)
\* term + term * v / n + term * v^2 / (n (n+1)) + ... for v >= 0.
ExpSeries(v, term, n) ==
    IF term = 0 THEN 0
    ELSE term + ExpSeries(v, ((term \div n) * v) \div Scale, n + 1)

\* torch.exp of the fixed-point v.
Exp(v) ==
    IF v >= 0 THEN ExpSeries(v, Scale, 1)
    ELSE (Scale * Scale) \div ExpSeries(0 - v, Scale, 1)


(* ------------------------------ the data ------------------------------- *)

\* A Data object without graph structure.
NewData(x, batch) ==
    [x |-> x, batch |-> batch, edge_index |-> None, edge_weight |-> None]

\* The enumerated inputs: up to MaxPoints points of Grid, any batch ids.
SmallInputs ==
    UNION { { NewData(x, b) : x \in [1..n -> Grid], b \in [1..n -> BatchIds] }
            : n \in 1..MaxPoints }

\* The result of a call: the data as the call leaves it, and how it ended.
Returned(d) == [data |-> d, status |-> "ok"]
Raised(d, error) == [data |-> d, status |-> error]

(* --------------------------- KNNGraphBuilder --------------------------- *)

\* KNNGraphBuilder.__init__: columns defaults to [0, 1, 2]; nothing is checked.
KNNGraphBuilder(nb_nearest_neighbours, columns) ==
    [kind |-> "knn",
     nb_nearest_neighbours |-> nb_nearest_neighbours,
     columns |-> IF columns = None THEN <<0, 1, 2>> ELSE The(columns)]

\* The mutant: the new edges are appended to an edge_index already there.
KNNForwardMerging(self, d) ==
    IF ~ColumnsInRange(d.x, self.columns)
    THEN Raised(d, "IndexError")
    ELSE LET new == knn_graph(SelectColumns(d.x, self.columns),
                              self.nb_nearest_neighbours, d.batch)
         IN  Returned([d EXCEPT !.edge_index =
                 IF d.edge_index = None THEN Some(new)
                 ELSE Some(The(d.edge_index) \o new)])

\* The mutant: forward rejects k < 1.
KNNForwardValidating(self, d) ==
    IF self.nb_nearest_neighbours < 1 \/ ~ColumnsInRange(d.x, self.columns)
    THEN Raised(d, "IndexError")
    ELSE Returned([d EXCEPT !.edge_index =
                      Some(knn_graph(SelectColumns(d.x, self.columns),
                                     self.nb_nearest_neighbours, d.batch))])

\* KNNGraphBuilder.forward
KNNForward(self, d) ==
    IF ~ColumnsInRange(d.x, self.columns)
    THEN Raised(d, "IndexError")
    ELSE Returned([d EXCEPT !.edge_index =
                      Some(knn_graph(SelectColumns(d.x, self.columns),
                                     self.nb_nearest_neighbours, d.batch))])

(* -------------------------- RadialGraphBuilder ------------------------- *)

\* RadialGraphBuilder.__init__: columns defaults to [0, 1, 2]; nothing is
\* checked.
RadialGraphBuilder(radius_halves, columns) ==
    [kind |-> "radial",
     radius_halves |-> radius_halves,
     columns |-> IF columns = None THEN <<0, 1, 2>> ELSE The(columns)]

\* RadialGraphBuilder.forward
RadialForward(self, d) ==
    IF ~ColumnsInRange(d.x, self.columns)
    THEN Raised(d, "IndexError")
    ELSE Returned([d EXCEPT !.edge_index =
                      Some(radius_graph(SelectColumns(d.x, self.columns),
                                        self.radius_halves, d.batch))])

(* ------------------------- EuclideanGraphBuilder ----------------------- *)

\* EuclideanGraphBuilder.__init__: columns defaults to [0, 1, 2]; nothing is
\* checked.
EuclideanGraphBuilder(sigma, threshold, columns) ==
    [kind |-> "euclidean",
     sigma |-> sigma,
     threshold |-> threshold,
     columns |-> IF columns = None THEN <<0, 1, 2>> ELSE The(columns)]

\* batch_mask[i][j]: the two pulses have the same batch id.
batch_mask(batch) ==
    [i \in DOMAIN batch |-> [j \in DOMAIN batch |-> batch[i] = batch[j]]]

\* calculate_distance_matrix(xyz_coords): the Euclidean distance of every pair
\* of rows.
calculate_distance_matrix(xyz) ==
    [i \in DOMAIN xyz |-> [j \in DOMAIN xyz |-> Sqrt(SqDist(xyz[i], xyz[j]))]]

\* The mutant: the squared distance is multiplied by sigma^2.
affinity_times_sigma(distance, sigma) ==
    Exp(0 - (((distance * distance) \div Scale) * sigma * sigma) \div 2)

\* One entry of exp(-0.5 * distance^2 / sigma^2). With sigma = 0 the float
\* quotient is nan for distance 0 (0/0) and -inf otherwise, whose exp is 0.
affinity(distance, sigma) ==
    IF sigma = 0
    THEN IF distance = 0 THEN NaN ELSE 0
    ELSE Exp(0 - ((distance * distance) \div Scale) \div (2 * sigma * sigma))

affinity_matrix(distance_matrix, sigma) ==
    [i \in DOMAIN distance_matrix |->
        [j \in DOMAIN distance_matrix |-> affinity(distance_matrix[i][j], sigma)]]

\* torch.exp(affinity_matrix), nan kept.
exp_affinity(A) ==
    [i \in DOMAIN A |->
        [j \in DOMAIN A |-> IF A[i][j] = NaN THEN NaN ELSE Exp(A[i][j])]]

\* torch.exp(affinity_matrix).sum(axis=1): the sum of every whole row, the
\* entries of other events included; nan when the row holds a nan.
exp_row_sums(E) ==
    [i \in DOMAIN E |->
        IF \E j \in DOMAIN E : E[i][j] = NaN THEN NaN
        ELSE SumTo(E[i], Len(E))]

\* torch.exp(affinity_matrix) / exp_row_sums.unsqueeze(dim=1)
weighted_adj_matrix(E, sums) ==
    [i \in DOMAIN E |->
        [j \in DOMAIN E |->
            IF sums[i] = NaN \/ E[i][j] = NaN THEN NaN
            ELSE (E[i][j] * Scale) \div sums[i]]]

\* The mutant: the event mask is left out of the selection.
selected_unmasked(W, threshold, mask, i, j) ==
    W[i][j] # NaN /\ W[i][j] > threshold

\* (weighted_adj_matrix > threshold) & batch_mask, at [i][j]; a comparison
\* with nan is False.
selected(W, threshold, mask, i, j) ==
    W[i][j] # NaN /\ W[i][j] > threshold /\ mask[i][j]

\* torch.where(...): the selected [i][j] in row-major order, as the columns
\* <<sources[e], targets[e]>>.
where(W, threshold, mask) ==
    Flatten([i \in DOMAIN W |->
                SelectSeq([j \in DOMAIN W |-> <<i, j>>],
                          LAMBDA e : selected(W, threshold, mask, e[1], e[2]))],
            Len(W))

\* The weighted adjacency matrix forward computes for the data.
Weights(self, d) ==
    LET E == exp_affinity(affinity_matrix(
                 calculate_distance_matrix(SelectColumns(d.x, self.columns)),
                 self.sigma))
    IN  weighted_adj_matrix(E, exp_row_sums(E))

\* EuclideanGraphBuilder.forward
EuclideanForward(self, d) ==
    IF ~ColumnsInRange(d.x, self.columns)
    THEN Raised(d, "IndexError")
    ELSE LET W     == Weights(self, d)
             edges == where(W, self.threshold, batch_mask(d.batch))
         IN  Returned([d EXCEPT
                 !.edge_index = Some(edges),
                 !.edge_weight =
                     Some([e \in DOMAIN edges |-> W[edges[e][1]][edges[e][2]]])])

(* ------------------------------ the calls ------------------------------ *)

\* What the model remembers of the last call: the builder, the edge_index the
\* data had before it, and how it ended.
NoCall == [builder |-> [kind |-> "none"], prior |-> None, status |-> "none"]

\* A forward call of the builder self on the data d, with the result res.
Call(self, d, res) ==
    /\ calls < MaxCalls
    /\ calls' = calls + 1
    /\ data' = res.data
    /\ last' = [builder |-> self, prior |-> d.edge_index, status |-> res.status]

KNN ==
    \E k \in Ks, columns \in ColumnArgs :
        LET self == KNNGraphBuilder(k, columns)
        IN  Call(self, data, KNNForward(self, data))

Radial ==
    \E radius_halves \in RadiusHalves, columns \in ColumnArgs :
        LET self == RadialGraphBuilder(radius_halves, columns)
        IN  Call(self, data, RadialForward(self, data))

Euclidean ==
    \E sigma \in Sigmas, threshold \in Thresholds, columns \in ColumnArgs :
        LET self == EuclideanGraphBuilder(sigma, threshold, columns)
        IN  Call(self, data, EuclideanForward(self, data))

\* The dense inputs: n points in one batch, taken from Grid in turn, so that
\* all of them are within distance 1.5 of each other.
DenseInputs ==
    { NewData([i \in 1..n |->
                  IF i % 3 = 1 THEN <<0, 0, 0>>
                  ELSE IF i % 3 = 2 THEN <<1, 0, 0>> ELSE <<0, 1, 0>>],
              [i \in 1..n |-> 0])
      : n \in (MaxDense - 1)..MaxDense }

\* Graph structures a Data object may bring along: none, an empty edge_index,
\* or the edges between every two distinct points, whatever their batches.
PriorStructures(d) ==
    { None,
      Some(<<>>),
      Some(Flatten([i \in DOMAIN d.x |->
                       SelectSeq([j \in DOMAIN d.x |-> <<j, i>>],
                                 LAMBDA e : e[1] # e[2])],
                   Len(d.x))) }

\* The enumerated inputs, with and without a graph structure of their own.
StructuredInputs ==
    UNION { { [d EXCEPT !.edge_index = e] : e \in PriorStructures(d) }
            : d \in SmallInputs }

\* Data without graph structure, no call made.
Init ==
    /\ data \in SmallInputs
    /\ last = NoCall
    /\ calls = 0

InitRadial ==
    /\ data \in SmallInputs \cup DenseInputs
    /\ last = NoCall
    /\ calls = 0

InitStructured ==
    /\ data \in StructuredInputs
    /\ last = NoCall
    /\ calls = 0

\* No forward call has been made on the data.
First == calls = 0

\* Any sequence of at most MaxCalls forward calls of the three builders on
\* one Data object.
Next == KNN \/ Radial \/ Euclidean

Spec == Init /\ [][Next]_vars

\* One forward call of any builder on data with or without a graph structure.
NextOnce == First /\ (KNN \/ Radial \/ Euclidean)

SpecOnce == InitStructured /\ [][NextOnce]_vars

\* One forward call of one builder.
NextKNN == First /\ KNN

SpecKNN == Init /\ [][NextKNN]_vars

NextRadial == First /\ Radial

SpecRadial == InitRadial /\ [][NextRadial]_vars

NextEuclidean == First /\ Euclidean

SpecEuclidean == Init /\ [][NextEuclidean]_vars

(* ------------------------------ properties ----------------------------- *)

\* The columns of data.edge_index, and their set.
Edges == The(data.edge_index)
EdgeSet == Range(Edges)

Points == DOMAIN data.x

SameBatch(i, j) == data.batch[i] = data.batch[j]

\* The batch vector is in non-decreasing order, as torch_geometric's batching
\* lays it out.
Sorted(batch) == \A i, j \in DOMAIN batch : i < j => batch[i] <= batch[j]

\* The last call was a forward of a builder of this kind, and it returned.
Built(kind) == last.status = "ok" /\ last.builder.kind = kind

\* The rows of the last builder's columns.
Pos == SelectColumns(data.x, last.builder.columns)

\* The sources of the edges that target p.
Sources(p) == {e[1] : e \in {f \in EdgeSet : f[2] = p}}

\* The number of columns of edge_index whose target is p.
InDegree(p) == Cardinality({e \in DOMAIN Edges : Edges[e][2] = p})

\* The points of p's batch other than p.
Others(p) == {q \in Points : q # p /\ SameBatch(p, q)}

\* The result of the forward of a builder on d.
Forward(self, d) ==
    IF self.kind = "knn" THEN KNNForward(self, d)
    ELSE IF self.kind = "radial" THEN RadialForward(self, d)
    ELSE EuclideanForward(self, d)

NoCrossBatchEdge == \A e \in EdgeSet : SameBatch(e[1], e[2])

\* The builder's own parameter is well-formed: k >= 1, radius > 0, sigma > 0.
WellFormed(self) ==
    IF self.kind = "knn" THEN self.nb_nearest_neighbours >= 1
    ELSE IF self.kind = "radial" THEN self.radius_halves > 0
    ELSE self.sigma > 0

Moved(p, g) == [data EXCEPT !.x[p] = g, !.edge_index = None, !.edge_weight = None]

\* The weight forward computes for the pair (i, j) of d, and whether the pair
\* is an edge of its result.
WeightIn(d, i, j) == Weights(last.builder, d)[i][j]
EdgeIn(d, i, j) ==
    <<i, j>> \in Range(The(EuclideanForward(last.builder, d).data.edge_index))

\* C2 as stated: the edges and weights the Euclidean builder writes for a
\* batch depend only on the points of that batch; moving a point of another
\* batch changes neither.
C2_BatchIndependent ==
    (Built("euclidean") /\ last.builder.sigma > 0) =>
        \A p \in Points, g \in Grid :
            \A i, j \in Points :
                (SameBatch(i, j) /\ ~SameBatch(i, p)) =>
                    /\ EdgeIn(Moved(p, g), i, j) <=> <<i, j>> \in EdgeSet
                    /\ WeightIn(Moved(p, g), i, j) = WeightIn(data, i, j)

\* The ordered pairs of distinct same-batch points at distance below r, and
\* at distance r or below.
PairsBelowRadius ==
    {e \in Points \X Points :
        /\ e[1] # e[2] /\ SameBatch(e[1], e[2])
        /\ 4 * SqDist(Pos[e[1]], Pos[e[2]])
              < last.builder.radius_halves * last.builder.radius_halves}
PairsUpToRadius ==
    {e \in Points \X Points :
        /\ e[1] # e[2] /\ SameBatch(e[1], e[2])
        /\ 4 * SqDist(Pos[e[1]], Pos[e[2]])
              <= last.builder.radius_halves * last.builder.radius_halves}

\* C3 as stated: for r > 0 every edge of the radial builder joins distinct
\* same-batch points at distance <= r, and every such pair is an edge, for
\* any batch size (of the pairs at distance exactly r, which the claim counts
\* as edges too, this asks nothing).
C3_ExactlyWithinRadius ==
    (Built("radial") /\ last.builder.radius_halves > 0 /\ Sorted(data.batch)) =>
        /\ EdgeSet \subseteq PairsUpToRadius
        /\ PairsBelowRadius \subseteq EdgeSet

\* C3, the capped case reached: a radial build in which some point has more
\* than MaxNumNeighbors same-batch points strictly within the radius and is
\* the target of only MaxNumNeighbors edges.
C3_CapReached ==
    /\ Built("radial")
    /\ \E p \in Points :
          /\ Cardinality({q \in Others(p) :
                 WithinRadius(Pos[p], Pos[q], last.builder.radius_halves)})
                > MaxNumNeighbors
          /\ InDegree(p) = MaxNumNeighbors

\* C4 as stated: for k >= 1 every point of a batch of n points is the target
\* of exactly min(k, n - 1) edges, none of them a self-loop.
C4_InDegree ==
    (Built("knn") /\ last.builder.nb_nearest_neighbours >= 1 /\ Sorted(data.batch)) =>
        /\ \A e \in EdgeSet : e[1] # e[2]
        /\ \A p \in Points :
              InDegree(p) = Min(last.builder.nb_nearest_neighbours,
                                Cardinality(Others(p)))

\* The m points of S nearest to p, ties to the lower index.
NearestOthers(p, S, m) ==
    {q \in S : Cardinality({o \in S : Closer(Pos, p, o, q)}) < m}

\* C5 as stated: the edges that target p come from the k same-batch points
\* other than p nearest to p, ties resolved towards the lower index (all the
\* others when there are fewer than k).
C5_NearestSources ==
    (Built("knn") /\ last.builder.nb_nearest_neighbours >= 1 /\ Sorted(data.batch)) =>
        \A p \in Points :
            Sources(p) = NearestOthers(p, Others(p),
                                       last.builder.nb_nearest_neighbours)

\* The edges the last builder writes for the data with sigma replaced.
EdgesWith(sigma) ==
    The(EuclideanForward([last.builder EXCEPT !.sigma = sigma],
                         NewData(data.x, data.batch)).data.edge_index)

\* The number of self-pairs (i, i) among the columns of an edge_index.
SelfPairs(edges) == Cardinality({e \in DOMAIN edges : edges[e][1] = edges[e][2]})

\* C6 as stated: with everything else fixed, the number of edges that survive
\* the threshold never decreases when sigma grows.
C6_MonotoneInSigma ==
    (Built("euclidean") /\ last.builder.sigma > 0) =>
        \A sigma2 \in Sigmas :
            sigma2 >= last.builder.sigma => Len(Edges) <= Len(EdgesWith(sigma2))

\* C6 amended: with threshold = 0 the number of edges is the same for every
\* sigma > 0; for any threshold the number of surviving self-pairs (i, i)
\* never increases when sigma grows.
C6_SelfPairsNonIncreasing ==
    (Built("euclidean") /\ last.builder.sigma > 0) =>
        \A sigma2 \in Sigmas :
            sigma2 >= last.builder.sigma =>
                /\ last.builder.threshold = 0 => Len(EdgesWith(sigma2)) = Len(Edges)
                /\ SelfPairs(EdgesWith(sigma2)) <= SelfPairs(Edges)

\* C6 witness: a Euclidean build with a positive threshold whose self-pairs
\* survive, and fewer of them survive with the larger sigma.
C6_Witness ==
    /\ Built("euclidean")
    /\ last.builder.sigma = 1
    /\ last.builder.threshold > 0
    /\ SelfPairs(EdgesWith(2)) < SelfPairs(Edges)

C9_Overwrites ==
    (last.status # "none" /\ last.prior # None
        /\ ColumnsInRange(data.x, last.builder.columns)) =>
        /\ last.status = "ok"
        /\ data.edge_index =
              Forward(last.builder, NewData(data.x, data.batch)).data.edge_index

\* C9 witness: a call has written edges over an edge_index that held others.
C9_Witness ==
    /\ last.status = "ok"
    /\ last.prior # None
    /\ The(last.prior) # <<>>
    /\ Edges # <<>>
    /\ Edges # The(last.prior)

\* C10 as stated: whenever edge_weight is set it is parallel to edge_index,
\* one weight per edge, the weights of a Euclidean build being those of its
\* edges (of the claim, this states only the part a k-NN or radial build after
\* a Euclidean one can break: as many weights as edges; and only for calls
\* with well-formed parameters).
C10_WeightsParallel ==
    (data.edge_weight # None /\ last.status = "ok" /\ WellFormed(last.builder)) =>
        /\ data.edge_index # None
        /\ Len(The(data.edge_weight)) = Len(Edges)
        /\ Built("euclidean") =>
              \A e \in DOMAIN Edges :
                  The(data.edge_weight)[e] = WeightIn(data, Edges[e][1], Edges[e][2])

====
